---- MODULE Spec2Model ----
(***************************************************************************)
(* Shipment store, user store and their services in the shipment API.      *)
(*                                                                         *)
(* The state is the Shipment collection (documents keyed by _id), the      *)
(* counters from which fresh _ids are drawn, the last HTTP exchange with   *)
(* the shipment routes (request parameters, response code) and the body of *)
(* the last read; the User collection, the last exchange with the auth and *)
(* user routes, and the requests that are between two database calls.      *)
(*                                                                         *)
(* Spec has one action per shipment and tracking route; each action is the *)
(* whole chain validation middleware -> controller -> service -> mongoose  *)
(* pre('save') hooks -> error handler.  UserSpec has one action per auth   *)
(* and user route; register and updateProfile, which look the email up and *)
(* then write, are two actions each, so that requests interleave between   *)
(* the lookup and the write.  ListSpec has the list and statistics routes   *)
(* over shipments stored by POST /shipments.  ConcurrentSpec serves status *)
(* changes and deletes in two actions each (findById and the checks, then  *)
(* the write), so that requests on one shipment interleave.  VirtualSpec   *)
(* reads the virtuals daysInTransit and isOverdue of a document as the     *)
(* clock advances; there a Date is its time value and NoTime is no date.   *)
(*                                                                         *)
(* The last exchange records the body of a request once the code has read  *)
(* it: a request answered 403, 404 or 409 by the shipment service, or      *)
(* turned down by authenticate / adminOnly, is recorded without its body.  *)
(* requests counts the requests served; MaxRequests bounds a run.          *)
(* Request parameters are well-formed: the 422 answers of the validation   *)
(* middleware are not modelled.                                            *)
(*                                                                         *)
(* Dates are abstracted to set / unset (NoDate, DateSet): new Date() is    *)
(* always a set date.  An absent (undefined) field is Null.                *)
(***************************************************************************)
EXTENDS Integers, Sequences, FiniteSets, TLC

\* ---------------------------------------------------------------- bounds
MaxShipments == 2

MaxRequests == 3

MaxAttachments == 2

\* The latest time on the clock of the derived fields.
MaxTime == 4

\* ------------------------------------------------------------- constants
Null == "null"

NoDate == "unset"

DateSet == "set"

PENDING == "pending"

IN_TRANSIT == "in_transit"

DELIVERED == "delivered"

CANCELLED == "cancelled"

SHIPMENT_STATUS == {PENDING, IN_TRANSIT, DELIVERED, CANCELLED}

ADMIN == "admin"

USER == "user"

MANAGER == "manager"

USER_ROLES == {ADMIN, USER, MANAGER}

\* The authenticated actors: one of each role.
Users == {"u1", "u2", "adm"}

RoleOf(u) == CASE u = "u1" -> USER [] u = "u2" -> MANAGER [] OTHER -> ADMIN

\* The values generateTrackingNumber can return (already upper case).
TrackingNumbers == {"SHP-A", "SHP-B"}

\* Values a caller can send.
NotesValues == {"Package picked up"}

ForgedTracking == "NEW-TRACKING-123"

ForgedCreatedBy == "u2"

ForgedHistory == <<>>

BodyDescription == "Updated description"

\* The bodies of PUT requests: any of the schema's keys, with or without the
\* protected keys.
UpdateBodies ==
  {k \cup f : k \in SUBSET {"status", "description"},
               f \in {{}, {"trackingNumber", "createdBy", "statusHistory"}}}

CreateBodies == {{}, {"status"}, {"status", "trackingNumber"}}

\* The status values a body with these keys can carry (one placeholder when
\* the body has no status key).
BodyStatuses(keys) == IF "status" \in keys THEN SHIPMENT_STATUS ELSE {PENDING}

ForgedKeys == {"trackingNumber", "createdBy", "statusHistory"}

ShipmentIds == 1..MaxShipments

AttachmentIds == 1..MaxAttachments

\* The tracking numbers a reader can ask for: a stored spelling, the same in
\* lower case, and another number.
RequestedTracking == {"SHP-A", "shp-a", "SHP-B"}

\* String.prototype.toUpperCase on the requested tracking numbers.
toUpperCase(tn) == CASE tn = "shp-a" -> "SHP-A" [] tn = "shp-b" -> "SHP-B" [] OTHER -> tn

\* The paths of shipmentSchema.
SchemaPaths ==
  {"trackingNumber", "senderName", "receiverName", "origin", "destination",
   "status", "weight", "description", "estimatedDelivery", "actualDelivery",
   "attachments", "statusHistory", "createdBy", "updatedBy", "createdAt",
   "updatedAt"}

\* The paths trackShipment selects.
TrackSelect ==
  {"trackingNumber", "senderName", "receiverName", "origin", "destination",
   "status", "statusHistory", "estimatedDelivery", "actualDelivery", "createdAt"}

\* ------------------------------------------------------ users: constants
\* The _ids given to the users that register, in order.
NewUserIds == <<"u3", "u4">>

UserIds == Users \cup {NewUserIds[k] : k \in 1..Len(NewUserIds)}

\* The users present from the start (one of each role) and their emails.
SeedEmail(u) ==
  CASE u = "u1" -> "u1@x.io" [] u = "u2" -> "u2@x.io" [] OTHER -> "adm@x.io"

SeedPassword == "secret1"

\* Emails a caller can send to register or to update a profile: new ones in
\* two spellings, and a stored one in another spelling.
RegisterEmails == {"new@x.io", "NEW@x.io", "U1@x.io"}

\* Emails a caller can send to log in: stored ones in two spellings, a
\* registered one, and one nobody has.
LoginEmails == {"u1@x.io", "U1@x.io", "adm@x.io", "new@x.io", "ghost@x.io"}

\* String.prototype.toLowerCase on the emails above.
toLowerCase(email) ==
  CASE email = "NEW@x.io" -> "new@x.io"
    [] email = "U1@x.io" -> "u1@x.io"
    [] OTHER -> email

\* Passwords a caller can register with.
RegisterPasswords == {"secret2", "long72+a"}

\* Passwords a caller can send.  The two long ones have more than 72 bytes
\* and differ only after the 72nd.
Passwords == {"secret1", "secret2", "long72+a", "long72+b"}

\* bcrypt reads at most the first 72 bytes of its input.
bcryptInput(password) ==
  CASE password = "long72+a" -> "long72"
    [] password = "long72+b" -> "long72"
    [] OTHER -> password

\* bcrypt.hash(password, salt): a string that is not the password and that
\* is determined, as far as bcrypt.compare can tell, by the bytes bcrypt read.
hash(password) ==
  CASE bcryptInput(password) = "secret1" -> "$2a$12$secret1"
    [] bcryptInput(password) = "secret2" -> "$2a$12$secret2"
    [] bcryptInput(password) = "long72" -> "$2a$12$long72"
    [] OTHER -> "$2a$12$other"

\* The bodies of registrations: the required keys, with or without a role and
\* an active flag.
RegisterBodies ==
  {{"name", "email", "password"},
   {"name", "email", "password", "role", "isActive"}}

ForgedRole == "admin"

\* The bodies of profile updates: an email, a name, and both together with
\* the fields a caller must not set.
ProfileBodies ==
  {{"email"}, {"name"}, {"name", "email", "role", "isActive", "password"}}

ForgedPassword == "chosen-pw"

\* The emails a profile update with these keys can carry.
BodyEmails(keys) == IF "email" \in keys THEN RegisterEmails ELSE {Null}

\* The file of an avatar upload as stored (its path).
AvatarPath == "uploads/avatar"

\* What a request carries in its Authorization header: nothing, a string that
\* is not a token signed by this server, or the token issued to a user.
NoToken == "none"

BadToken == "forged"

Bearers == {NoToken, BadToken} \cup UserIds

\* An ObjectId, and the string ObjectId.prototype.toString() gives for it.
ObjectId(id) == [type |-> "ObjectId", hex |-> id]

toString(oid) == [type |-> "string", hex |-> oid.hex]

\* The requests the server can be serving at the same time.
Procs == {"p1", "p2"}

VARIABLES shipments, nextId, nextAtt, last, requests, reply,
          users, nextUser, ulast, calls,
          virtualDoc, now, json, listing, loaded

shipmentVars == <<shipments, nextId, nextAtt, last, reply>>

userVars == <<users, nextUser, ulast, calls>>

\* A shipment document held in memory, the clock, and the derived fields of
\* the document's last serialisation.
virtualVars == <<virtualDoc, now, json>>

vars == <<shipments, nextId, nextAtt, last, requests, reply,
          users, nextUser, ulast, calls, virtualDoc, now, json, listing, loaded>>

\* ---------------------------------------------------------------- helpers
\* Mutant of isAdmin: a manager passes as an admin.
isAdminOrManager(actor) == RoleOf(actor) \in {ADMIN, MANAGER}

\* req.user.role === USER_ROLES.ADMIN
isAdmin(actor) == RoleOf(actor) = ADMIN

Stored == DOMAIN shipments

Response(op, code, actor, id, status, notes, forged) ==
  [op |-> op, code |-> code, actor |-> actor, id |-> id,
   status |-> status, notes |-> notes, forged |-> forged, attachmentId |-> 0]

\* ------------------------------------------------ validation middleware
\* shipmentValidation.update with stripUnknown: the keys the schema knows
\* survive, trackingNumber is stripped explicitly, unknown keys are dropped.
ValidateUpdateKeys(keys) == keys \cap {"status", "description"}

\* shipmentValidation.create: status defaults to pending, unknown keys
\* (trackingNumber) are dropped.
ValidateCreateKeys(keys) == (keys \cap {"status", "description"}) \cup {"status"}

ValidateCreateStatus(keys, status) == IF "status" \in keys THEN status ELSE PENDING

\* ------------------------------------------------------- Shipment model
validTransitions ==
  [s \in SHIPMENT_STATUS |->
     CASE s = PENDING -> {IN_TRANSIT, CANCELLED}
       [] s = IN_TRANSIT -> {DELIVERED, CANCELLED}
       [] s = DELIVERED -> {}
       [] OTHER -> {}]

\* Mutant of validateStatusTransition: pending may go straight to delivered.
validateStatusTransitionSkip(currentStatus, newStatus) ==
  \/ currentStatus = newStatus
  \/ newStatus \in validTransitions[currentStatus]
  \/ (currentStatus = PENDING /\ newStatus = DELIVERED)

\* TRUE when validateStatusTransition returns, FALSE when it throws 400.
validateStatusTransition(currentStatus, newStatus) ==
  \/ currentStatus = newStatus
  \/ newStatus \in validTransitions[currentStatus]

\* Mutant of statusHistoryHook: no entry is pushed when the status changes.
statusHistoryHookNoPush(doc, statusModified) ==
  IF statusModified
  THEN [doc EXCEPT
          !.actualDelivery =
             IF doc.status = DELIVERED /\ @ = NoDate THEN DateSet ELSE @]
  ELSE doc

\* Mutant of statusHistoryHook: the history is assigned, not pushed to.
statusHistoryHookAssign(doc, statusModified) ==
  IF statusModified
  THEN [doc EXCEPT
          !.statusHistory =
             <<[status |-> doc.status,
                changedBy |-> IF doc.updatedBy # Null THEN doc.updatedBy
                              ELSE doc.createdBy,
                notes |-> Null]>>,
          !.actualDelivery =
             IF doc.status = DELIVERED /\ @ = NoDate THEN DateSet ELSE @]
  ELSE doc

\* Mutant of statusHistoryHook: actualDelivery is never set.
statusHistoryHookNoDelivery(doc, statusModified) ==
  IF statusModified
  THEN [doc EXCEPT
          !.statusHistory =
             Append(@, [status |-> doc.status,
                        changedBy |-> IF doc.updatedBy # Null THEN doc.updatedBy
                                      ELSE doc.createdBy,
                        notes |-> Null])]
  ELSE doc

\* pre('save') hook: "Add status to history when status changes".
statusHistoryHook(doc, statusModified) ==
  IF statusModified
  THEN [doc EXCEPT
          !.statusHistory =
             Append(@, [status |-> doc.status,
                        changedBy |-> IF doc.updatedBy # Null THEN doc.updatedBy
                                      ELSE doc.createdBy,
                        notes |-> Null]),
          !.actualDelivery =
             IF doc.status = DELIVERED /\ @ = NoDate THEN DateSet ELSE @]
  ELSE doc

\* Mutant of DuplicateKey: trackingNumber carries no unique index.
DuplicateKeyNoIndex(coll, tn) == FALSE

\* The unique index on trackingNumber: an insert of a duplicate key fails
\* with error code 11000.
DuplicateKey(coll, tn) == \E i \in DOMAIN coll : coll[i].trackingNumber = tn

\* --------------------------------------------------- ShipmentService
\* The document createShipment hands to new Shipment(data), after the
\* schema defaults; keys are the keys of the validated body.
createShipmentDoc(keys, status, tn, atts, userId) ==
  [trackingNumber |-> tn,
   status |-> IF "status" \in keys THEN status ELSE PENDING,
   createdBy |-> userId,
   updatedBy |-> Null,
   actualDelivery |-> NoDate,
   description |-> IF "description" \in keys THEN BodyDescription ELSE Null,
   attachments |-> atts,
   statusHistory |-> <<[status |-> IF "status" \in keys THEN status ELSE PENDING,
                        changedBy |-> userId,
                        notes |-> Null]>>]

\* Query.select(paths) followed by toJSON: the selected paths keep their
\* values, every other path is absent from the document (Null, or the empty
\* list for an array path).
select(doc, paths) ==
  [trackingNumber |-> IF "trackingNumber" \in paths THEN doc.trackingNumber ELSE Null,
   status |-> IF "status" \in paths THEN doc.status ELSE Null,
   createdBy |-> IF "createdBy" \in paths THEN doc.createdBy ELSE Null,
   updatedBy |-> IF "updatedBy" \in paths THEN doc.updatedBy ELSE Null,
   actualDelivery |-> IF "actualDelivery" \in paths THEN doc.actualDelivery ELSE Null,
   description |-> IF "description" \in paths THEN doc.description ELSE Null,
   attachments |-> IF "attachments" \in paths THEN doc.attachments ELSE <<>>,
   statusHistory |-> IF "statusHistory" \in paths THEN doc.statusHistory ELSE <<>>]

\* The body of a response: the tracking number the request asked for (Null
\* when it addressed an id), the paths of the returned document and their
\* values.
Reply(tn, paths, doc) == [tn |-> tn, paths |-> paths, data |-> select(doc, paths)]

\* A response that carries no shipment as modelled here.
NoReply ==
  [tn |-> Null, paths |-> {},
   data |-> [trackingNumber |-> Null, status |-> Null, createdBy |-> Null,
             updatedBy |-> Null, actualDelivery |-> Null, description |-> Null,
             attachments |-> <<>>, statusHistory |-> <<>>]]

\* The last exchange with the auth and user routes: the route, the response
\* code, the Authorization header, the :id parameter, the body's email,
\* password, new password and role, and whether the response carries a token.
UResponse(op, code, bearer, target, email, password, newPassword, role, token) ==
  [op |-> op, code |-> code, bearer |-> bearer, target |-> target,
   email |-> email, password |-> password, newPassword |-> newPassword,
   role |-> role, token |-> token, message |-> Null]

\* The messages of the 409 responses: HttpError.conflict in register and in
\* updateProfile, and the error handler's answer to a duplicate key error.
EmailRegistered == "Email already registered"

EmailInUse == "Email already in use"

EmailExists == "email already exists"

\* A request that is not being served.
Idle == [pc |-> "idle", userId |-> Null, email |-> Null, password |-> Null,
         keys |-> {}, forged |-> FALSE]

\* A request between its existence check and its write; forged tells whether
\* its body carried role, isActive or (in a profile update) password.
Call(pc, userId, email, password, keys) ==
  [pc |-> pc, userId |-> userId, email |-> email, password |-> password,
   keys |-> keys, forged |-> FALSE]

\* A user document as stored.
UserDoc(email, password, role) ==
  [email |-> email, password |-> password, role |-> role,
   isActive |-> TRUE, lastLogin |-> NoDate, avatar |-> Null]

\* A date that is null or undefined; a Date is its time value, 0 being the
\* epoch.
NoTime == -1

\* The times a Date can carry.
Times == 0..MaxTime

\* 1000 * 60 * 60 * 24 milliseconds, in units of half a day.
Day == 2

\* A document whose virtuals have not been read.
NotSerialised == [computed |-> FALSE, daysInTransit |-> 0, isOverdue |-> FALSE]

\* The query string of GET /shipments and of GET /shipments/stats.
Query(status, search, sortOrder, page, limit, userId) ==
  [status |-> status, search |-> search, sortOrder |-> sortOrder,
   page |-> page, limit |-> limit, userId |-> userId]

\* The answer to a list or statistics request: who asked what, the _ids of
\* the shipments on the page in their order, pagination.total, and the
\* statistics.
Listing(op, actor, query, items, total, stats) ==
  [op |-> op, actor |-> actor, query |-> query, items |-> items,
   total |-> total, stats |-> stats]

NoStats ==
  [total |-> 0, pending |-> 0, in_transit |-> 0, delivered |-> 0, cancelled |-> 0]

\* No list or statistics request was the last one served.
NoListing ==
  Listing("none", Null, Query(Null, Null, "desc", 1, 1, Null), <<>>, 0, NoStats)

\* A request that has loaded no shipment.
NotLoaded ==
  [pc |-> "idle", actor |-> Null, id |-> 0, status |-> Null, notes |-> Null,
   doc |-> NoReply.data]

\* A request between findById and its write: the document it holds, and the
\* status and notes of its body.
Loaded(pc, actor, id, status, notes, doc) ==
  [pc |-> pc, actor |-> actor, id |-> id, status |-> status, notes |-> notes,
   doc |-> doc]

\* Both collections as the tests find them, and no request served.
StoreInit ==
  /\ shipments = <<>>
  /\ nextId = 1
  /\ nextAtt = 1
  /\ last = Response("none", 0, Null, 0, Null, Null, FALSE)
  /\ requests = 0
  /\ reply = NoReply
  /\ users = [u \in Users |-> UserDoc(SeedEmail(u), hash(SeedPassword), RoleOf(u))]
  /\ nextUser = 1
  /\ ulast = UResponse("none", 0, Null, Null, Null, Null, Null, Null, FALSE)
  /\ calls = [p \in Procs |-> Idle]
  /\ listing = NoListing
  /\ loaded = [p \in Procs |-> NotLoaded]

Init ==
  /\ StoreInit
  /\ virtualDoc = [status |-> PENDING, createdAt |-> 0,
                   estimatedDelivery |-> NoTime, actualDelivery |-> NoTime]
  /\ now = 0
  /\ json = NotSerialised

\* POST /shipments
CreateShipment(actor, keys, status, tn, nfiles) ==
  /\ nextId <= MaxShipments
  /\ nextAtt + nfiles - 1 <= MaxAttachments
  /\ LET vkeys == ValidateCreateKeys(keys)
         vstatus == ValidateCreateStatus(keys, status)
         atts == IF nfiles = 1 THEN <<nextAtt>> ELSE <<>>
         doc == createShipmentDoc(vkeys, vstatus, tn, atts, actor)
         \* a path set through the constructor of a new document is modified
         saved == statusHistoryHook(doc, "status" \in vkeys)
     IN IF DuplicateKey(shipments, tn)
        THEN /\ last' = Response("create", 409, actor, 0, Null, Null, FALSE)
             /\ UNCHANGED <<shipments, nextId, nextAtt>>
        ELSE /\ shipments' = shipments @@ (nextId :> saved)
             /\ nextId' = nextId + 1
             /\ nextAtt' = nextAtt + nfiles
             /\ last' = Response("create", 201, actor, nextId, vstatus, Null,
                                 keys \cap ForgedKeys # {})

\* Mutant of updateShipmentDoc: the acting user is written to createdBy
\* instead of updatedBy.
updateShipmentDocOwnerSlip(doc, keys, status, userId) ==
  LET allowed == keys \ {"trackingNumber", "createdBy", "statusHistory"}
  IN [doc EXCEPT
        !.status = IF "status" \in allowed THEN status ELSE @,
        !.description = IF "description" \in allowed THEN BodyDescription ELSE @,
        !.createdBy = userId]

\* The document updateShipment saves: trackingNumber, createdBy and
\* statusHistory are taken out of updateData, updatedBy is added, and
\* Object.assign writes every remaining key onto the loaded document.
updateShipmentDoc(doc, keys, status, userId) ==
  LET allowed == keys \ {"trackingNumber", "createdBy", "statusHistory"}
  IN [doc EXCEPT
        !.status = IF "status" \in allowed THEN status ELSE @,
        !.description = IF "description" \in allowed THEN BodyDescription ELSE @,
        !.trackingNumber = IF "trackingNumber" \in allowed THEN ForgedTracking ELSE @,
        !.createdBy = IF "createdBy" \in allowed THEN ForgedCreatedBy ELSE @,
        !.statusHistory = IF "statusHistory" \in allowed THEN ForgedHistory ELSE @,
        !.updatedBy = userId]

\* PUT /shipments/:id
UpdateShipment(actor, id, keys, status) ==
  LET forged == keys \cap ForgedKeys # {}
      reqStatus == IF "status" \in keys THEN status ELSE Null
  IN
  IF id \notin Stored
  THEN /\ last' = Response("update", 404, actor, id, Null, Null, FALSE)
       /\ UNCHANGED <<shipments, nextId, nextAtt>>
  ELSE IF ~isAdmin(actor) /\ shipments[id].createdBy # actor
  THEN /\ last' = Response("update", 403, actor, id, Null, Null, FALSE)
       /\ UNCHANGED <<shipments, nextId, nextAtt>>
  ELSE LET doc == updateShipmentDoc(shipments[id], ValidateUpdateKeys(keys), status, actor)
           saved == statusHistoryHook(doc, doc.status # shipments[id].status)
       IN /\ shipments' = [shipments EXCEPT ![id] = saved]
          /\ last' = Response("update", 200, actor, id, reqStatus, Null, forged)
          /\ UNCHANGED <<nextId, nextAtt>>

\* The document updateStatus saves, before the hooks run.
updateStatusDoc(doc, status, userId, notes) ==
  [doc EXCEPT
     !.status = status,
     !.updatedBy = userId,
     !.statusHistory = Append(@, [status |-> status, changedBy |-> userId,
                                  notes |-> notes])]

\* PATCH /shipments/:id/status
UpdateStatus(actor, id, status, notes) ==
  IF id \notin Stored
  THEN /\ last' = Response("status", 404, actor, id, Null, Null, FALSE)
       /\ UNCHANGED <<shipments, nextId, nextAtt>>
  ELSE IF ~isAdmin(actor) /\ shipments[id].createdBy # actor
  THEN /\ last' = Response("status", 403, actor, id, Null, Null, FALSE)
       /\ UNCHANGED <<shipments, nextId, nextAtt>>
  ELSE IF ~validateStatusTransition(shipments[id].status, status)
  THEN /\ last' = Response("status", 400, actor, id, status, notes, FALSE)
       /\ UNCHANGED <<shipments, nextId, nextAtt>>
  ELSE LET doc == updateStatusDoc(shipments[id], status, actor, notes)
           saved == statusHistoryHook(doc, doc.status # shipments[id].status)
       IN /\ shipments' = [shipments EXCEPT ![id] = saved]
          /\ last' = Response("status", 200, actor, id, status, notes, FALSE)
          /\ UNCHANGED <<nextId, nextAtt>>

\* Mutant of deleteAllowed: a shipment in transit may be deleted by its owner.
deleteAllowedInTransit(doc, admin) ==
  admin \/ doc.status = PENDING \/ doc.status = CANCELLED \/ doc.status = IN_TRANSIT

\* TRUE when deleteShipment passes its status guard.
deleteAllowed(doc, admin) ==
  admin \/ doc.status = PENDING \/ doc.status = CANCELLED

\* DELETE /shipments/:id
DeleteShipment(actor, id) ==
  IF id \notin Stored
  THEN /\ last' = Response("delete", 404, actor, id, Null, Null, FALSE)
       /\ UNCHANGED <<shipments, nextId, nextAtt>>
  ELSE IF ~isAdmin(actor) /\ shipments[id].createdBy # actor
  THEN /\ last' = Response("delete", 403, actor, id, Null, Null, FALSE)
       /\ UNCHANGED <<shipments, nextId, nextAtt>>
  ELSE IF ~deleteAllowed(shipments[id], isAdmin(actor))
  THEN /\ last' = Response("delete", 400, actor, id, Null, Null, FALSE)
       /\ UNCHANGED <<shipments, nextId, nextAtt>>
  ELSE /\ shipments' = [i \in Stored \ {id} |-> shipments[i]]
       /\ last' = Response("delete", 200, actor, id, Null, Null, FALSE)
       /\ UNCHANGED <<nextId, nextAtt>>

\* The document addAttachment saves.
addAttachmentDoc(doc, attachment, userId) ==
  [doc EXCEPT !.attachments = Append(@, attachment), !.updatedBy = userId]

\* POST /shipments/:id/attachments  (a file is uploaded)
AddAttachment(actor, id) ==
  IF id \notin Stored
  THEN /\ last' = Response("addAttachment", 404, actor, id, Null, Null, FALSE)
       /\ UNCHANGED <<shipments, nextId, nextAtt>>
  ELSE IF ~isAdmin(actor) /\ shipments[id].createdBy # actor
  THEN /\ last' = Response("addAttachment", 403, actor, id, Null, Null, FALSE)
       /\ UNCHANGED <<shipments, nextId, nextAtt>>
  ELSE /\ nextAtt <= MaxAttachments
       /\ shipments' = [shipments EXCEPT
                          ![id] = statusHistoryHook(
                                    addAttachmentDoc(@, nextAtt, actor), FALSE)]
       /\ nextAtt' = nextAtt + 1
       /\ last' = Response("addAttachment", 200, actor, id, Null, Null, FALSE)
       /\ UNCHANGED nextId

\* attachments.findIndex: the first index holding attachmentId, 0 when none.
findIndex(atts, attachmentId) ==
  IF \E k \in 1..Len(atts) : atts[k] = attachmentId
  THEN CHOOSE k \in 1..Len(atts) :
         /\ atts[k] = attachmentId
         /\ \A j \in 1..(k - 1) : atts[j] # attachmentId
  ELSE 0

\* Mutant of splice: the last record is removed, whatever the index.
spliceLast(atts, index) == [k \in 1..(Len(atts) - 1) |-> atts[k]]

\* attachments.splice(index, 1)
splice(atts, index) ==
  [k \in 1..(Len(atts) - 1) |-> IF k < index THEN atts[k] ELSE atts[k + 1]]

\* The document removeAttachment saves.
removeAttachmentDoc(doc, index, userId) ==
  [doc EXCEPT !.attachments = splice(@, index), !.updatedBy = userId]

\* DELETE /shipments/:id/attachments/:attachmentId
RemoveAttachment(actor, id, attachmentId) ==
  IF id \notin Stored
  THEN /\ last' = Response("removeAttachment", 404, actor, id, Null, Null, FALSE)
       /\ UNCHANGED <<shipments, nextId, nextAtt>>
  ELSE IF ~isAdmin(actor) /\ shipments[id].createdBy # actor
  THEN /\ last' = Response("removeAttachment", 403, actor, id, Null, Null, FALSE)
       /\ UNCHANGED <<shipments, nextId, nextAtt>>
  ELSE IF findIndex(shipments[id].attachments, attachmentId) = 0
  THEN /\ last' = [Response("removeAttachment", 404, actor, id, Null, Null, FALSE)
                   EXCEPT !.attachmentId = attachmentId]
       /\ UNCHANGED <<shipments, nextId, nextAtt>>
  ELSE /\ shipments' = [shipments EXCEPT
                          ![id] = statusHistoryHook(
                                    removeAttachmentDoc(@,
                                      findIndex(@.attachments, attachmentId), actor),
                                    FALSE)]
       /\ last' = [Response("removeAttachment", 200, actor, id, Null, Null, FALSE)
                   EXCEPT !.attachmentId = attachmentId]
       /\ UNCHANGED <<nextId, nextAtt>>

\* Shipment.findByTrackingNumber: the id of the shipment whose tracking
\* number is the upper-cased argument, 0 when there is none.
findByTrackingNumber(coll, trackingNumber) ==
  IF \E i \in DOMAIN coll : coll[i].trackingNumber = toUpperCase(trackingNumber)
  THEN CHOOSE i \in DOMAIN coll : coll[i].trackingNumber = toUpperCase(trackingNumber)
  ELSE 0

\* Mutant of getByIdAllowed: every authenticated user may read.
getByIdAllowedAnyone(doc, userId, admin) == TRUE

\* TRUE when getShipmentById passes its authorization check.
getByIdAllowed(doc, userId, admin) == admin \/ doc.createdBy = userId

\* GET /shipments/:id
GetById(actor, id) ==
  /\ UNCHANGED <<shipments, nextId, nextAtt>>
  /\ IF id \notin Stored
     THEN /\ last' = Response("getById", 404, actor, id, Null, Null, FALSE)
          /\ reply' = NoReply
     ELSE IF ~getByIdAllowed(shipments[id], actor, isAdmin(actor))
     THEN /\ last' = Response("getById", 403, actor, id, Null, Null, FALSE)
          /\ reply' = NoReply
     ELSE /\ last' = Response("getById", 200, actor, id, Null, Null, FALSE)
          /\ reply' = Reply(Null, SchemaPaths, shipments[id])

\* GET /shipments/track/:trackingNumber
GetByTrackingNumber(actor, trackingNumber) ==
  LET id == findByTrackingNumber(shipments, trackingNumber)
  IN /\ UNCHANGED <<shipments, nextId, nextAtt>>
     /\ IF id = 0
        THEN /\ last' = Response("getByTrackingNumber", 404, actor, 0, Null, Null, FALSE)
             /\ reply' = Reply(trackingNumber, {}, NoReply.data)
        ELSE /\ last' = Response("getByTrackingNumber", 200, actor, id, Null, Null, FALSE)
             /\ reply' = Reply(trackingNumber, SchemaPaths, shipments[id])

\* Mutant of trackShipmentDoc: the whole document is returned.
trackShipmentDocAll(tn, doc) == Reply(tn, SchemaPaths, doc)

\* The document trackShipment returns for a stored shipment.
trackShipmentDoc(tn, doc) == Reply(tn, TrackSelect, doc)

\* GET /track/:trackingNumber  (public: no token, no actor)
TrackShipment(trackingNumber) ==
  LET id == findByTrackingNumber(shipments, trackingNumber)
  IN /\ UNCHANGED <<shipments, nextId, nextAtt>>
     /\ IF id = 0
        THEN /\ last' = Response("track", 404, Null, 0, Null, Null, FALSE)
             /\ reply' = Reply(trackingNumber, {}, NoReply.data)
        ELSE /\ last' = Response("track", 200, Null, id, Null, Null, FALSE)
             /\ reply' = trackShipmentDoc(trackingNumber, shipments[id])

\* ------------------------------------------------ list and statistics
\* The search strings a caller sends, and the tracking numbers the regular
\* expression made of each matches with option i.
SearchStrings == {"shp", "-a"}

regexMatch(search, trackingNumber) ==
  CASE search = "shp" -> trackingNumber \in {"SHP-A", "SHP-B"}
    [] search = "-a" -> trackingNumber = "SHP-A"
    [] OTHER -> FALSE

\* shipmentValidation.query with stripUnknown: userId is no key of the schema.
ValidateQuery(query) == [query EXCEPT !.userId = Null]

\* Mutant of getAllOptions: the userId of the query is used for every caller.
getAllOptionsQueryUser(actor, query) == query

\* The options getAll builds: "Non-admins can only see their own shipments".
getAllOptions(actor, query) ==
  [query EXCEPT !.userId = IF isAdmin(actor) THEN query.userId ELSE actor]

\* The filter of statics.search.
searchFilter(doc, options) ==
  /\ options.status # Null => doc.status = options.status
  /\ options.userId # Null => doc.createdBy = options.userId
  /\ options.search # Null => regexMatch(options.search, doc.trackingNumber)

\* sort({createdAt: 1}) of the documents with these _ids: _ids are given in
\* the order of creation.
RECURSIVE sortAscending(_)
sortAscending(ids) ==
  IF ids = {}
  THEN <<>>
  ELSE LET first == CHOOSE i \in ids : \A j \in ids : i <= j
       IN <<first>> \o sortAscending(ids \ {first})

reverse(seq) == [k \in 1..Len(seq) |-> seq[Len(seq) + 1 - k]]

sort(ids, sortOrder) ==
  IF sortOrder = "desc" THEN reverse(sortAscending(ids)) ELSE sortAscending(ids)

\* .skip(skip).limit(limit)
skipLimit(seq, skip, limit) ==
  SubSeq(seq, skip + 1, IF skip + limit < Len(seq) THEN skip + limit ELSE Len(seq))

\* shipmentSchema.statics.search: the page and the count.
search(coll, options) ==
  LET found == {i \in DOMAIN coll : searchFilter(coll[i], options)}
  IN [shipments |-> skipLimit(sort(found, options.sortOrder),
                              (options.page - 1) * options.limit, options.limit),
      total |-> Cardinality(found)]

\* GET /shipments
GetAll(actor, query) ==
  LET result == search(shipments, getAllOptions(actor, ValidateQuery(query)))
  IN /\ listing' = Listing("list", actor, query, result.shipments, result.total,
                           NoStats)
     /\ last' = Response("list", 200, actor, 0, Null, Null, FALSE)
     /\ UNCHANGED <<shipments, nextId, nextAtt>>

\* getStatistics(null)
NoUserId == [type |-> "null", hex |-> Null]

\* $match of the aggregation: the pipeline is not cast, so a createdBy given
\* as a string (a query parameter) equals no stored ObjectId.
aggregateMatch(doc, userId) ==
  userId = NoUserId \/ ObjectId(doc.createdBy) = userId

\* Mutant of getStatistics: the match stage is empty for every caller.
getStatisticsAll(coll, userId) ==
  LET count(s) == Cardinality({i \in DOMAIN coll : coll[i].status = s})
  IN [total |-> count(PENDING) + count(IN_TRANSIT) + count(DELIVERED)
                  + count(CANCELLED),
      pending |-> count(PENDING), in_transit |-> count(IN_TRANSIT),
      delivered |-> count(DELIVERED), cancelled |-> count(CANCELLED)]

\* ShipmentService.getStatistics: $match, $group by status, and the sum.
getStatistics(coll, userId) ==
  LET count(s) == Cardinality({i \in DOMAIN coll :
                                /\ aggregateMatch(coll[i], userId)
                                /\ coll[i].status = s})
  IN [total |-> count(PENDING) + count(IN_TRANSIT) + count(DELIVERED)
                  + count(CANCELLED),
      pending |-> count(PENDING), in_transit |-> count(IN_TRANSIT),
      delivered |-> count(DELIVERED), cancelled |-> count(CANCELLED)]

\* GET /shipments/stats
GetStatistics(actor, userId) ==
  LET query == Query(Null, Null, "desc", 1, 1, userId)
      matchUser == IF isAdmin(actor) /\ userId # Null
                   THEN toString(ObjectId(userId))
                   ELSE IF isAdmin(actor) THEN NoUserId ELSE ObjectId(actor)
  IN /\ listing' = Listing("stats", actor, query, <<>>, 0,
                           getStatistics(shipments, matchUser))
     /\ last' = Response("stats", 200, actor, 0, Null, Null, FALSE)
     /\ UNCHANGED <<shipments, nextId, nextAtt>>

\* GET /shipments/my-stats
GetMyStatistics(actor) ==
  /\ listing' = Listing("my-stats", actor, Query(Null, Null, "desc", 1, 1, Null),
                        <<>>, 0, getStatistics(shipments, ObjectId(actor)))
  /\ last' = Response("my-stats", 200, actor, 0, Null, Null, FALSE)
  /\ UNCHANGED <<shipments, nextId, nextAtt>>

\* One request to the list and statistics routes, or one that stores a
\* shipment for them to read.
ServeList ==
  /\ requests < MaxRequests
  /\ requests' = requests + 1
  /\ reply' = NoReply
  /\ UNCHANGED userVars
  /\ UNCHANGED virtualVars
  /\ UNCHANGED loaded

\* The values of the query parameters sent.
Queries ==
  {Query(status, srch, sortOrder, page, limit, userId) :
     status \in {Null, DELIVERED},
     srch \in {Null} \cup SearchStrings,
     sortOrder \in {"asc", "desc"},
     page \in 1..MaxShipments, limit \in 1..MaxShipments,
     userId \in {Null, "u2"}}

ListNext ==
  \/ \E actor \in Users, keys \in {{}, {"status"}}, tn \in TrackingNumbers :
       \E status \in BodyStatuses(keys) :
         ServeList /\ listing' = NoListing /\ CreateShipment(actor, keys, status, tn, 0)
  \/ \E actor \in Users, query \in Queries : ServeList /\ GetAll(actor, query)
  \/ \E actor \in Users, userId \in {Null, "u2"} :
       ServeList /\ GetStatistics(actor, userId)
  \/ \E actor \in Users : ServeList /\ GetMyStatistics(actor)

ListSpec == Init /\ [][ListNext]_vars

\* ------------------------------------- requests served concurrently
\* A new request is served by the first process that holds no document.
FreeToLoad(p) ==
  /\ loaded[p].pc = "idle"
  /\ p = CHOOSE q \in Procs : loaded[q].pc = "idle"

\* document.save() of a document loaded as old and changed in memory to
\* new: the modified paths are $set and the pushed array elements $push-ed
\* onto the stored document, whatever it has become.
save(stored, old, new) ==
  [stored EXCEPT
     !.status = IF new.status # old.status THEN new.status ELSE @,
     !.updatedBy = IF new.updatedBy # old.updatedBy THEN new.updatedBy ELSE @,
     !.actualDelivery = IF new.actualDelivery # old.actualDelivery
                        THEN new.actualDelivery ELSE @,
     !.statusHistory = @ \o SubSeq(new.statusHistory, Len(old.statusHistory) + 1,
                                   Len(new.statusHistory))]

\* PATCH /shipments/:id/status, from findById to validateStatusTransition
UpdateStatusLoad(p, actor, id, status, notes) ==
  /\ FreeToLoad(p)
  /\ UNCHANGED <<shipments, nextId, nextAtt>>
  /\ IF id \notin Stored
     THEN /\ last' = Response("status", 404, actor, id, Null, Null, FALSE)
          /\ UNCHANGED loaded
     ELSE IF ~isAdmin(actor) /\ shipments[id].createdBy # actor
     THEN /\ last' = Response("status", 403, actor, id, Null, Null, FALSE)
          /\ UNCHANGED loaded
     ELSE IF ~validateStatusTransition(shipments[id].status, status)
     THEN /\ last' = Response("status", 400, actor, id, status, notes, FALSE)
          /\ UNCHANGED loaded
     ELSE /\ loaded' = [loaded EXCEPT
                          ![p] = Loaded("save", actor, id, status, notes,
                                        shipments[id])]
          /\ UNCHANGED last

\* PATCH /shipments/:id/status, from shipment.status = status to the response
UpdateStatusSave(p) ==
  LET id == loaded[p].id
      old == loaded[p].doc
      doc == updateStatusDoc(old, loaded[p].status, loaded[p].actor, loaded[p].notes)
      new == statusHistoryHook(doc, doc.status # old.status)
  IN /\ loaded[p].pc = "save"
     /\ loaded' = [loaded EXCEPT ![p] = NotLoaded]
     /\ UNCHANGED <<nextId, nextAtt>>
     /\ IF id \notin Stored
        THEN /\ last' = Response("status", 500, loaded[p].actor, id,
                                 loaded[p].status, loaded[p].notes, FALSE)
             /\ UNCHANGED shipments
        ELSE /\ shipments' = [shipments EXCEPT ![id] = save(@, old, new)]
             /\ last' = Response("status", 200, loaded[p].actor, id,
                                 loaded[p].status, loaded[p].notes, FALSE)

\* DELETE /shipments/:id, from findById to the status guard
DeleteLoad(p, actor, id) ==
  /\ FreeToLoad(p)
  /\ UNCHANGED <<shipments, nextId, nextAtt>>
  /\ IF id \notin Stored
     THEN /\ last' = Response("delete", 404, actor, id, Null, Null, FALSE)
          /\ UNCHANGED loaded
     ELSE IF ~isAdmin(actor) /\ shipments[id].createdBy # actor
     THEN /\ last' = Response("delete", 403, actor, id, Null, Null, FALSE)
          /\ UNCHANGED loaded
     ELSE IF ~deleteAllowed(shipments[id], isAdmin(actor))
     THEN /\ last' = Response("delete", 400, actor, id, Null, Null, FALSE)
          /\ UNCHANGED loaded
     ELSE /\ loaded' = [loaded EXCEPT
                          ![p] = Loaded("remove", actor, id, Null, Null,
                                        shipments[id])]
          /\ UNCHANGED last

\* DELETE /shipments/:id, findByIdAndDelete(id) and the response
DeleteRemove(p) ==
  /\ loaded[p].pc = "remove"
  /\ loaded' = [loaded EXCEPT ![p] = NotLoaded]
  /\ shipments' = [i \in Stored \ {loaded[p].id} |-> shipments[i]]
  /\ last' = Response("delete", 200, loaded[p].actor, loaded[p].id, Null, Null,
                      FALSE)
  /\ UNCHANGED <<nextId, nextAtt>>

\* One request starts being served while others may be in flight.
ServeConcurrent ==
  /\ requests < MaxRequests
  /\ requests' = requests + 1
  /\ reply' = NoReply
  /\ UNCHANGED <<userVars, virtualVars, listing>>

\* A request in flight goes on to its write.
ResumeConcurrent ==
  /\ reply' = NoReply
  /\ UNCHANGED <<requests, userVars, virtualVars, listing>>

ConcurrentNext ==
  \/ \E actor \in Users, keys \in {{}, {"status"}}, tn \in TrackingNumbers :
       \E status \in BodyStatuses(keys) :
         ServeConcurrent /\ UNCHANGED loaded
           /\ CreateShipment(actor, keys, status, tn, 0)
  \/ \E p \in Procs, actor \in Users, id \in ShipmentIds, status \in SHIPMENT_STATUS,
        notes \in NotesValues :
       ServeConcurrent /\ UpdateStatusLoad(p, actor, id, status, notes)
  \/ \E p \in Procs : ResumeConcurrent /\ UpdateStatusSave(p)
  \/ \E p \in Procs, actor \in Users, id \in ShipmentIds :
       ServeConcurrent /\ DeleteLoad(p, actor, id)
  \/ \E p \in Procs : ResumeConcurrent /\ DeleteRemove(p)

ConcurrentSpec == Init /\ [][ConcurrentNext]_vars

\* One request to the shipment routes is served; these routes write nothing
\* to the User collection.
Serve ==
  /\ requests < MaxRequests
  /\ requests' = requests + 1
  /\ UNCHANGED userVars
  /\ UNCHANGED virtualVars
  /\ UNCHANGED <<listing, loaded>>

\* A mutating route answers with the saved document or a message; the body
\* of its response is not modelled.
Mutation == Serve /\ reply' = NoReply

Next ==
  \/ \E actor \in Users, keys \in CreateBodies, tn \in TrackingNumbers, nfiles \in 0..1 :
       \E status \in BodyStatuses(keys) :
         Mutation /\ CreateShipment(actor, keys, status, tn, nfiles)
  \/ \E actor \in Users, id \in ShipmentIds, keys \in UpdateBodies :
       \E status \in BodyStatuses(keys) :
         Mutation /\ UpdateShipment(actor, id, keys, status)
  \/ \E actor \in Users, id \in ShipmentIds, status \in SHIPMENT_STATUS,
        notes \in NotesValues :
       Mutation /\ UpdateStatus(actor, id, status, notes)
  \/ \E actor \in Users, id \in ShipmentIds : Mutation /\ DeleteShipment(actor, id)
  \/ \E actor \in Users, id \in ShipmentIds : Mutation /\ AddAttachment(actor, id)
  \/ \E actor \in Users, id \in ShipmentIds, attachmentId \in AttachmentIds :
       Mutation /\ RemoveAttachment(actor, id, attachmentId)
  \/ \E actor \in Users, id \in ShipmentIds : Serve /\ GetById(actor, id)
  \/ \E actor \in Users, trackingNumber \in RequestedTracking :
       Serve /\ GetByTrackingNumber(actor, trackingNumber)
  \/ \E trackingNumber \in RequestedTracking : Serve /\ TrackShipment(trackingNumber)

Spec == Init /\ [][Next]_vars

\* ------------------------------------------------------------ User model
\* Mutant of findByEmail: the stored email is matched as typed.
findByEmailExact(coll, email) ==
  IF \E u \in DOMAIN coll : coll[u].email = email
  THEN CHOOSE u \in DOMAIN coll : coll[u].email = email
  ELSE Null

\* User.findByEmail / findOne({email: email.toLowerCase()}): the _id of the
\* user found, Null when there is none.
findByEmail(coll, email) ==
  IF \E u \in DOMAIN coll : coll[u].email = toLowerCase(email)
  THEN CHOOSE u \in DOMAIN coll : coll[u].email = toLowerCase(email)
  ELSE Null

\* Mutant of comparePassword: every candidate verifies.
comparePasswordAlways(doc, candidatePassword) == TRUE

\* userSchema.methods.comparePassword: bcrypt.compare(candidate, this.password)
comparePassword(doc, candidatePassword) == hash(candidatePassword) = doc.password

\* Mutant of passwordHook: the password is stored as assigned.
passwordHookPlain(doc, passwordModified) == doc

\* pre('save') hook of the User model: "Hash password before saving".
passwordHook(doc, passwordModified) ==
  IF passwordModified THEN [doc EXCEPT !.password = hash(@)] ELSE doc

\* Mutant of DuplicateEmail: email carries no unique index.
DuplicateEmailNoIndex(coll, email, self) == FALSE

\* The unique index on email: a write that would give a second document the
\* same email fails with error code 11000.
DuplicateEmail(coll, email, self) ==
  \E u \in DOMAIN coll : u # self /\ coll[u].email = email

\* ----------------------------------------------------- auth middleware
\* Mutant of authenticate: a deactivated user's token is still honoured.
authenticateInactive(bearer) == IF bearer \in DOMAIN users THEN bearer ELSE Null

\* authenticate + verifyTokenAndGetUser: the _id of req.user, Null when the
\* request is answered 401 (no Bearer header, a token that does not verify,
\* or a token whose user is gone or deactivated).
authenticate(bearer) ==
  IF bearer \in DOMAIN users /\ users[bearer].isActive THEN bearer ELSE Null

\* Mutant of adminOnly: every role is allowed.
authorizeAnyone(role) == TRUE

\* Mutant of adminOnly: managers pass as well (managerOrAdmin).
managerOrAdmin(role) == role \in {ADMIN, MANAGER}

\* adminOnly = authorize(USER_ROLES.ADMIN): TRUE when the role is allowed.
adminOnly(role) == role \in {ADMIN}

\* The response code with which authenticate, adminOnly turn a request to a
\* user-management route down, 0 when they let it through.
adminGate(bearer) ==
  IF authenticate(bearer) = Null THEN 401
  ELSE IF ~adminOnly(users[authenticate(bearer)].role) THEN 403
  ELSE 0

\* ------------------------------------------------------------ UserService
\* Mutant of loginCode: the active flag is not looked at.
loginCodeNoActiveCheck(coll, id, password) ==
  IF id = Null THEN 401
  ELSE IF ~comparePassword(coll[id], password) THEN 401
  ELSE 200

\* The checks of UserService.login in their order: the code of the error
\* thrown, 200 when none is.
loginCode(coll, id, password) ==
  IF id = Null THEN 401
  ELSE IF ~coll[id].isActive THEN 403
  ELSE IF ~comparePassword(coll[id], password) THEN 401
  ELSE 200

\* POST /auth/login
Login(email, password) ==
  LET id == findByEmail(users, email)
  IN /\ UNCHANGED <<nextUser, calls>>
     /\ IF loginCode(users, id, password) # 200
        THEN /\ ulast' = UResponse("login", loginCode(users, id, password), Null,
                                   id, email, password, Null, Null, FALSE)
             /\ UNCHANGED users
        ELSE /\ users' = [users EXCEPT
                            ![id] = passwordHook([@ EXCEPT !.lastLogin = DateSet],
                                                 FALSE)]
             /\ ulast' = UResponse("login", 200, Null, id, email, password,
                                   Null, Null, TRUE)

\* PUT /auth/password
ChangePassword(bearer, currentPassword, newPassword) ==
  LET userId == authenticate(bearer)
  IN /\ UNCHANGED <<nextUser, calls>>
     /\ IF userId = Null
        THEN /\ ulast' = UResponse("changePassword", 401, bearer, Null, Null,
                                   Null, Null, Null, FALSE)
             /\ UNCHANGED users
        ELSE IF ~comparePassword(users[userId], currentPassword)
        THEN /\ ulast' = UResponse("changePassword", 400, bearer, userId, Null,
                                   currentPassword, newPassword, Null, FALSE)
             /\ UNCHANGED users
        ELSE /\ users' = [users EXCEPT
                            ![userId] = passwordHook([@ EXCEPT !.password = newPassword],
                                                     newPassword # @.password)]
             /\ ulast' = UResponse("changePassword", 200, bearer, userId, Null,
                                   currentPassword, newPassword, Null, TRUE)

\* GET /users
GetAllUsers(bearer) ==
  /\ UNCHANGED <<users, nextUser, calls>>
  /\ ulast' = UResponse("getAllUsers",
                        IF adminGate(bearer) # 0 THEN adminGate(bearer) ELSE 200,
                        bearer, Null, Null, Null, Null, Null, FALSE)

\* GET /users/:id
GetUserById(bearer, id) ==
  /\ UNCHANGED <<users, nextUser, calls>>
  /\ IF adminGate(bearer) # 0
     THEN ulast' = UResponse("getUserById", adminGate(bearer), bearer, Null,
                             Null, Null, Null, Null, FALSE)
     ELSE ulast' = UResponse("getUserById",
                             IF id \notin DOMAIN users THEN 404 ELSE 200,
                             bearer, id, Null, Null, Null, Null, FALSE)

\* PUT /users/:id/role
UpdateUserRole(bearer, id, role) ==
  /\ UNCHANGED <<nextUser, calls>>
  /\ IF adminGate(bearer) # 0
     THEN /\ ulast' = UResponse("updateUserRole", adminGate(bearer), bearer, Null,
                                Null, Null, Null, Null, FALSE)
          /\ UNCHANGED users
     ELSE IF id \notin DOMAIN users
     THEN /\ ulast' = UResponse("updateUserRole", 404, bearer, id, Null, Null,
                                Null, role, FALSE)
          /\ UNCHANGED users
     ELSE /\ users' = [users EXCEPT ![id].role = role]
          /\ ulast' = UResponse("updateUserRole", 200, bearer, id, Null, Null,
                                Null, role, FALSE)

\* PUT /users/:id/deactivate
DeactivateUser(bearer, id) ==
  /\ UNCHANGED <<nextUser, calls>>
  /\ IF adminGate(bearer) # 0
     THEN /\ ulast' = UResponse("deactivateUser", adminGate(bearer), bearer, Null,
                                Null, Null, Null, Null, FALSE)
          /\ UNCHANGED users
     ELSE IF id \notin DOMAIN users
     THEN /\ ulast' = UResponse("deactivateUser", 404, bearer, id, Null, Null,
                                Null, Null, FALSE)
          /\ UNCHANGED users
     ELSE /\ users' = [users EXCEPT ![id].isActive = FALSE]
          /\ ulast' = UResponse("deactivateUser", 200, bearer, id, Null, Null,
                                Null, Null, FALSE)

\* PUT /users/:id/activate
ActivateUser(bearer, id) ==
  /\ UNCHANGED <<nextUser, calls>>
  /\ IF adminGate(bearer) # 0
     THEN /\ ulast' = UResponse("activateUser", adminGate(bearer), bearer, Null,
                                Null, Null, Null, Null, FALSE)
          /\ UNCHANGED users
     ELSE IF id \notin DOMAIN users
     THEN /\ ulast' = UResponse("activateUser", 404, bearer, id, Null, Null,
                                Null, Null, FALSE)
          /\ UNCHANGED users
     ELSE /\ users' = [users EXCEPT ![id].isActive = TRUE]
          /\ ulast' = UResponse("activateUser", 200, bearer, id, Null, Null,
                                Null, Null, FALSE)

\* DELETE /users/:id
DeleteUser(bearer, id) ==
  /\ UNCHANGED <<nextUser, calls>>
  /\ IF adminGate(bearer) # 0
     THEN /\ ulast' = UResponse("deleteUser", adminGate(bearer), bearer, Null,
                                Null, Null, Null, Null, FALSE)
          /\ UNCHANGED users
     ELSE IF id \notin DOMAIN users
     THEN /\ ulast' = UResponse("deleteUser", 404, bearer, id, Null, Null,
                                Null, Null, FALSE)
          /\ UNCHANGED users
     ELSE /\ users' = [u \in DOMAIN users \ {id} |-> users[u]]
          /\ ulast' = UResponse("deleteUser", 200, bearer, id, Null, Null,
                                Null, Null, FALSE)

\* Mutant of ValidateRegisterKeys: unknown keys are kept.
ValidateRegisterKeysKeepAll(keys) == keys

\* userValidation.register with stripUnknown: name, email and password
\* survive, every other key is dropped.
ValidateRegisterKeys(keys) == keys \cap {"name", "email", "password"}

\* new User(userData) after the schema's setters and defaults: the email is
\* lower-cased, role defaults to user, isActive to true.
newUserDoc(keys, email, password) ==
  [UserDoc(toLowerCase(email), password,
           IF "role" \in keys THEN ForgedRole ELSE USER)
     EXCEPT !.isActive = ("isActive" \notin keys)]

\* A new request is served by the first process that is free.
Free(p) ==
  /\ calls[p].pc = "idle"
  /\ p = CHOOSE q \in Procs : calls[q].pc = "idle"

\* POST /auth/register, up to the existence check of UserService.register
Register(p, keys, email, password) ==
  /\ Free(p)
  /\ nextUser + Cardinality({q \in Procs : calls[q].pc = "create"}) <= Len(NewUserIds)
  /\ UNCHANGED <<users, nextUser>>
  /\ IF findByEmail(users, email) # Null
     THEN /\ ulast' = [UResponse("register", 409, Null, Null, email, password,
                                 Null, Null, FALSE)
                         EXCEPT !.message = EmailRegistered]
          /\ UNCHANGED calls
     ELSE /\ calls' = [calls EXCEPT
                         ![p] = [Call("create", Null, email, password,
                                      ValidateRegisterKeys(keys))
                                   EXCEPT !.forged = ("role" \in keys)]]
          /\ UNCHANGED ulast

\* POST /auth/register, from this.create(userData) to the response
RegisterCreate(p) ==
  /\ calls[p].pc = "create"
  /\ calls' = [calls EXCEPT ![p] = Idle]
  /\ LET doc == passwordHook(
                  newUserDoc(calls[p].keys, calls[p].email, calls[p].password), TRUE)
     IN IF DuplicateEmail(users, doc.email, Null)
        THEN /\ ulast' = [UResponse("register", 409, Null, Null, calls[p].email,
                                    calls[p].password, Null, Null, FALSE)
                            EXCEPT !.message = EmailExists]
             /\ UNCHANGED <<users, nextUser>>
        ELSE /\ users' = users @@ (NewUserIds[nextUser] :> doc)
             /\ nextUser' = nextUser + 1
             /\ ulast' = UResponse("register", 201, Null, NewUserIds[nextUser],
                                   calls[p].email, calls[p].password, Null,
                                   IF calls[p].forged THEN ForgedRole ELSE Null,
                                   TRUE)

\* existingUser && existingUser._id.toString() !== userId, where userId is
\* the req.user._id the controller passes, an ObjectId: !== compares a string
\* with an object.
emailInUse(existingUser, userId) ==
  existingUser # Null /\ toString(ObjectId(existingUser)) # ObjectId(userId)

\* userValidation.updateProfile with stripUnknown: name and email survive.
ValidateProfileKeys(keys) == keys \cap {"name", "email"}

\* const { password, role, isActive, ...allowedUpdates } = updateData
allowedUpdates(keys) == keys \ {"password", "role", "isActive"}

\* findByIdAndUpdate(id, data) on a user: the keys of data are set, the
\* email through the schema's lowercase setter; no save hook runs.
updateProfileDoc(doc, keys, email) ==
  [doc EXCEPT
     !.email = IF "email" \in keys THEN toLowerCase(email) ELSE @,
     !.role = IF "role" \in keys THEN ForgedRole ELSE @,
     !.isActive = IF "isActive" \in keys THEN FALSE ELSE @,
     !.password = IF "password" \in keys THEN ForgedPassword ELSE @]

\* PUT /auth/profile, up to the existence check of updateProfile
UpdateProfile(p, bearer, keys, email) ==
  LET userId == authenticate(bearer)
      data == allowedUpdates(ValidateProfileKeys(keys))
      forged == keys \cap {"password", "role", "isActive"} # {}
  IN /\ Free(p)
     /\ UNCHANGED <<users, nextUser>>
     /\ IF userId = Null
        THEN /\ ulast' = UResponse("updateProfile", 401, bearer, Null, Null, Null,
                                   Null, Null, FALSE)
             /\ UNCHANGED calls
        ELSE IF "email" \in data /\ emailInUse(findByEmail(users, email), userId)
        THEN /\ ulast' = [UResponse("updateProfile", 409, bearer, userId, email,
                                    Null, Null,
                                    IF forged THEN ForgedRole ELSE Null, FALSE)
                            EXCEPT !.message = EmailInUse]
             /\ UNCHANGED calls
        ELSE /\ calls' = [calls EXCEPT
                            ![p] = [Call("update", userId, email, Null, data)
                                      EXCEPT !.forged = forged]]
             /\ UNCHANGED ulast

\* PUT /auth/profile, from this.updateById(userId, allowedUpdates) to the
\* response
UpdateProfileWrite(p) ==
  LET userId == calls[p].userId
      email == toLowerCase(calls[p].email)
      role == IF calls[p].forged THEN ForgedRole ELSE Null
  IN /\ calls[p].pc = "update"
     /\ calls' = [calls EXCEPT ![p] = Idle]
     /\ UNCHANGED nextUser
     /\ IF userId \notin DOMAIN users
        THEN /\ ulast' = UResponse("updateProfile", 404, userId, userId,
                                   calls[p].email, Null, Null, role, FALSE)
             /\ UNCHANGED users
        ELSE IF "email" \in calls[p].keys /\ DuplicateEmail(users, email, userId)
        THEN /\ ulast' = [UResponse("updateProfile", 409, userId, userId,
                                    calls[p].email, Null, Null, role, FALSE)
                            EXCEPT !.message = EmailExists]
             /\ UNCHANGED users
        ELSE /\ users' = [users EXCEPT
                            ![userId] = updateProfileDoc(@, calls[p].keys,
                                                         calls[p].email)]
             /\ ulast' = UResponse("updateProfile", 200, userId, userId,
                                   calls[p].email, Null, Null, role, FALSE)

\* GET /auth/profile
GetProfile(bearer) ==
  /\ UNCHANGED <<users, nextUser, calls>>
  /\ ulast' = UResponse("getProfile",
                        IF authenticate(bearer) = Null THEN 401 ELSE 200,
                        bearer, authenticate(bearer), Null, Null, Null, Null, FALSE)

\* PUT /auth/avatar
UpdateAvatar(bearer, file) ==
  LET userId == authenticate(bearer)
  IN /\ UNCHANGED <<nextUser, calls>>
     /\ IF userId = Null
        THEN /\ ulast' = UResponse("updateAvatar", 401, bearer, Null, Null, Null,
                                   Null, Null, FALSE)
             /\ UNCHANGED users
        ELSE IF ~file
        THEN /\ ulast' = UResponse("updateAvatar", 400, bearer, userId, Null, Null,
                                   Null, Null, FALSE)
             /\ UNCHANGED users
        ELSE /\ users' = [users EXCEPT ![userId].avatar = AvatarPath]
             /\ ulast' = UResponse("updateAvatar", 200, bearer, userId, Null, Null,
                                   Null, Null, FALSE)

\* A request past its existence check goes on to its write: no new request.
Resume ==
  /\ UNCHANGED requests
  /\ UNCHANGED shipmentVars
  /\ UNCHANGED virtualVars
  /\ UNCHANGED <<listing, loaded>>

\* One request to the auth or user routes starts being served; these routes
\* write nothing to the Shipment collection.
ServeUser ==
  /\ requests < MaxRequests
  /\ requests' = requests + 1
  /\ UNCHANGED shipmentVars
  /\ UNCHANGED virtualVars
  /\ UNCHANGED <<listing, loaded>>

UserNext ==
  \/ \E p \in Procs, keys \in RegisterBodies, email \in RegisterEmails,
        password \in RegisterPasswords :
       ServeUser /\ Register(p, keys, email, password)
  \/ \E p \in Procs : Resume /\ RegisterCreate(p)
  \/ \E p \in Procs, bearer \in Bearers, keys \in ProfileBodies :
       \E email \in BodyEmails(keys) :
         ServeUser /\ UpdateProfile(p, bearer, keys, email)
  \/ \E p \in Procs : Resume /\ UpdateProfileWrite(p)
  \/ \E email \in LoginEmails, password \in Passwords :
       ServeUser /\ Login(email, password)
  \/ \E bearer \in Bearers, currentPassword \in Passwords, newPassword \in Passwords :
       ServeUser /\ ChangePassword(bearer, currentPassword, newPassword)
  \/ \E bearer \in Bearers : ServeUser /\ GetProfile(bearer)
  \/ \E bearer \in Bearers, file \in BOOLEAN : ServeUser /\ UpdateAvatar(bearer, file)
  \/ \E bearer \in Bearers : ServeUser /\ GetAllUsers(bearer)
  \/ \E bearer \in Bearers, id \in UserIds : ServeUser /\ GetUserById(bearer, id)
  \/ \E bearer \in Bearers, id \in UserIds, role \in USER_ROLES :
       ServeUser /\ UpdateUserRole(bearer, id, role)
  \/ \E bearer \in Bearers, id \in UserIds : ServeUser /\ DeactivateUser(bearer, id)
  \/ \E bearer \in Bearers, id \in UserIds : ServeUser /\ ActivateUser(bearer, id)
  \/ \E bearer \in Bearers, id \in UserIds : ServeUser /\ DeleteUser(bearer, id)

UserSpec == Init /\ [][UserNext]_vars

\* --------------------------------------------------- Shipment virtuals
\* Math.abs
abs(x) == IF x < 0 THEN -x ELSE x

\* Math.ceil(x / y) for x >= 0 and y > 0
ceil(x, y) == (x + y - 1) \div y

\* virtual("daysInTransit") of doc, read at time t
daysInTransit(doc, t) ==
  IF doc.status = PENDING
  THEN 0
  ELSE LET endDate == IF doc.actualDelivery # NoTime THEN doc.actualDelivery ELSE t
           startDate == doc.createdAt
       IN ceil(abs(endDate - startDate), Day)

\* Mutant of isOverdue: a cancelled shipment can be overdue.
isOverdueCancelled(doc, t) ==
  IF doc.status = DELIVERED \/ doc.estimatedDelivery = NoTime
  THEN FALSE
  ELSE t > doc.estimatedDelivery

\* virtual("isOverdue") of doc, read at time t
isOverdue(doc, t) ==
  IF \/ doc.status = DELIVERED
     \/ doc.status = CANCELLED
     \/ doc.estimatedDelivery = NoTime
  THEN FALSE
  ELSE t > doc.estimatedDelivery

\* The documents the virtuals are read of: any status, created no later than
\* now, with or without an estimated and an actual delivery date.
VirtualInit ==
  /\ StoreInit
  /\ now \in Times
  /\ virtualDoc \in [status : SHIPMENT_STATUS,
                      createdAt : 0..now,
                      estimatedDelivery : {NoTime} \cup Times,
                      actualDelivery : {NoTime} \cup Times]
  /\ json = NotSerialised

\* toJSON with virtuals: true
ToJSON ==
  /\ json' = [computed |-> TRUE,
              daysInTransit |-> daysInTransit(virtualDoc, now),
              isOverdue |-> isOverdue(virtualDoc, now)]
  /\ UNCHANGED <<virtualDoc, now>>

\* Time passes.
Tick ==
  /\ now < MaxTime
  /\ now' = now + 1
  /\ json' = NotSerialised
  /\ UNCHANGED virtualDoc

VirtualNext ==
  \/ ToJSON /\ UNCHANGED <<requests, shipmentVars, userVars, listing, loaded>>
  \/ Tick /\ UNCHANGED <<requests, shipmentVars, userVars, listing, loaded>>

VirtualSpec == VirtualInit /\ [][VirtualNext]_vars

\* ------------------------------------------------------------ properties
\* The transition table of the shipment lifecycle, as pairs (current, next).
TransitionTable ==
  {<<PENDING, IN_TRANSIT>>, <<PENDING, CANCELLED>>,
   <<IN_TRANSIT, DELIVERED>>, <<IN_TRANSIT, CANCELLED>>}

IsPrefix(a, b) ==
  /\ Len(a) <= Len(b)
  /\ \A k \in 1..Len(a) : a[k] = b[k]

\* The request just served addressed a stored shipment and came from its
\* owner or an admin.
ByOwnerOrAdmin ==
  /\ last'.id \in Stored
  /\ (RoleOf(last'.actor) = ADMIN \/ shipments[last'.id].createdBy = last'.actor)

\* C1: a status-change request by the owner or an admin for a status other
\* than the current one is accepted (200, status set to the requested one) iff
\* (current, requested) is an edge of the transition table; otherwise it is
\* answered 400 and status, history and actualDelivery stay as they were.
C1_TransitionTableDecides ==
  [][(/\ last'.op = "status"
      /\ ByOwnerOrAdmin
      /\ last'.status # shipments[last'.id].status)
     => IF <<shipments[last'.id].status, last'.status>> \in TransitionTable
        THEN /\ last'.code = 200
             /\ shipments'[last'.id].status = last'.status
        ELSE /\ last'.code = 400
             /\ shipments' = shipments]_vars

C1_Witness ==
  /\ last.op = "status"
  /\ last.code = 400
  /\ last.id \in Stored
  /\ shipments[last.id].status = PENDING
  /\ last.status = DELIVERED

\* C2: every change of a stored shipment's status from one state to the next
\* is an edge of the transition table (so delivered and cancelled are final).
C2_StatusChangesFollowTable ==
  [][\A id \in Stored \cap DOMAIN shipments' :
       shipments'[id].status # shipments[id].status
       => <<shipments[id].status, shipments'[id].status>> \in TransitionTable]_vars

\* C3: a status-change request by the owner or an admin for the current
\* status succeeds and leaves the history and actualDelivery as they were.
C3_SelfTransitionNoOp ==
  [][(/\ last'.op = "status"
      /\ ByOwnerOrAdmin
      /\ last'.status = shipments[last'.id].status)
     => /\ last'.code = 200
        /\ Len(shipments'[last'.id].statusHistory)
             = Len(shipments[last'.id].statusHistory)
        /\ shipments'[last'.id].actualDelivery
             = shipments[last'.id].actualDelivery]_vars

\* C4: an accepted status transition appends exactly one history entry, which
\* carries the new status, the acting user and the notes of the request.
C4_OneEntryPerTransition ==
  [][(/\ last'.op = "status"
      /\ last'.code = 200
      /\ last'.id \in Stored
      /\ last'.status # shipments[last'.id].status)
     => shipments'[last'.id].statusHistory
          = Append(shipments[last'.id].statusHistory,
                   [status |-> last'.status, changedBy |-> last'.actor,
                    notes |-> last'.notes])]_vars

\* C5: the status history is append-only: over every step the history of a
\* shipment that stays stored is a prefix of its history afterwards.
C5_HistoryAppendOnly ==
  [][\A id \in Stored \cap DOMAIN shipments' :
       IsPrefix(shipments[id].statusHistory, shipments'[id].statusHistory)]_vars

\* An update whose body carried trackingNumber, createdBy and statusHistory
\* was accepted, and the shipment still has its history.
C5_Witness ==
  /\ last.op = "update"
  /\ last.code = 200
  /\ last.forged
  /\ last.status # Null
  /\ Len(shipments[last.id].statusHistory) >= 3

\* C6: tracking number and owner of a stored shipment never change.
C6_TrackingAndOwnerFixed ==
  [][\A id \in Stored \cap DOMAIN shipments' :
       /\ shipments'[id].trackingNumber = shipments[id].trackingNumber
       /\ shipments'[id].createdBy = shipments[id].createdBy]_vars

\* An admin's update of another user's shipment, with trackingNumber and
\* createdBy in the body, was accepted.
C6_Witness ==
  /\ last.op = "update"
  /\ last.code = 200
  /\ last.forged
  /\ RoleOf(last.actor) = ADMIN
  /\ shipments[last.id].createdBy # last.actor
  /\ shipments[last.id].updatedBy = last.actor
  /\ shipments[last.id].trackingNumber \in TrackingNumbers

\* C7: no two stored shipments share a tracking number; a creation whose
\* generated number collides is answered 409 and changes no stored shipment,
\* and an accepted creation leaves the shipments stored before as they were.
C7_TrackingNumbersUnique ==
  [][/\ \A i, j \in DOMAIN shipments' :
          i # j => shipments'[i].trackingNumber # shipments'[j].trackingNumber
     /\ (last'.op = "create" /\ requests' # requests)
        => /\ last'.code \in {201, 409}
           /\ last'.code = 409 => shipments' = shipments
           /\ \A i \in Stored : i \in DOMAIN shipments' /\ shipments'[i] = shipments[i]]_vars

C7_Witness ==
  /\ last.op = "create"
  /\ last.code = 409
  /\ Cardinality(Stored) = 1

\* C8: right after a creation by actor A the shipment is owned by A, has the
\* requested status (pending by default), a non-empty tracking number and a
\* history of exactly one entry with that status and changedBy A.
C8_CreatedShipment ==
  (last.op = "create" /\ last.code = 201)
  => /\ last.id \in Stored
     /\ shipments[last.id].createdBy = last.actor
     /\ shipments[last.id].status = last.status
     /\ shipments[last.id].trackingNumber # ""
     /\ shipments[last.id].statusHistory
          = <<[status |-> last.status, changedBy |-> last.actor, notes |-> Null]>>

\* C9: a shipment that becomes delivered while actualDelivery is unset gets
\* actualDelivery set; every delivered shipment has actualDelivery set; and an
\* owner's requests pending -> in_transit and in_transit -> delivered succeed.
C9_DeliveredHasActualDelivery ==
  [][/\ \A id \in DOMAIN shipments' :
          shipments'[id].status = DELIVERED => shipments'[id].actualDelivery # NoDate
     /\ (/\ last'.op = "status"
         /\ last'.id \in Stored
         /\ shipments[last'.id].createdBy = last'.actor
         /\ requests' # requests
         /\ \/ shipments[last'.id].status = PENDING /\ last'.status = IN_TRANSIT
            \/ shipments[last'.id].status = IN_TRANSIT /\ last'.status = DELIVERED)
        => /\ last'.code = 200
           /\ shipments'[last'.id].status = last'.status]_vars

\* The owner took a shipment created pending through in_transit to delivered.
C9_Witness ==
  /\ last.op = "status"
  /\ last.code = 200
  /\ last.status = DELIVERED
  /\ last.id \in Stored
  /\ shipments[last.id].createdBy = last.actor
  /\ RoleOf(last.actor) # ADMIN
  /\ shipments[last.id].status = DELIVERED
  /\ shipments[last.id].actualDelivery # NoDate
  /\ shipments[last.id].statusHistory[1].status = PENDING
  /\ \E k \in 1..Len(shipments[last.id].statusHistory) :
       shipments[last.id].statusHistory[k].status = IN_TRANSIT

MutationOps == {"update", "status", "delete", "addAttachment", "removeAttachment"}

\* C10: a mutation of a stored shipment requested by an actor who is neither
\* an admin nor its owner is answered 403 and changes nothing; requested by
\* the owner or an admin it is not answered 403.
C10_OnlyOwnerOrAdminMutates ==
  [][(last'.op \in MutationOps /\ last'.id \in Stored /\ requests' # requests)
     => IF RoleOf(last'.actor) # ADMIN /\ shipments[last'.id].createdBy # last'.actor
        THEN /\ last'.code = 403
             /\ shipments' = shipments
             /\ nextAtt' = nextAtt
        ELSE last'.code # 403]_vars

\* A manager was refused the deletion of another user's shipment.
C10_Witness ==
  /\ last.op = "delete"
  /\ last.code = 403
  /\ RoleOf(last.actor) = MANAGER
  /\ last.id \in Stored
  /\ shipments[last.id].createdBy # last.actor

\* C11: an authenticated read of a stored shipment, by id or by tracking
\* number, returns the shipment (200) iff the actor is an admin or its owner,
\* and 403 to every other actor.
C11_ReadOnlyByOwnerOrAdmin ==
  (last.op \in {"getById", "getByTrackingNumber"} /\ last.id \in Stored)
  => IF RoleOf(last.actor) = ADMIN \/ shipments[last.id].createdBy = last.actor
     THEN /\ last.code = 200
          /\ reply.data = shipments[last.id]
     ELSE /\ last.code = 403
          /\ reply.paths = {}

\* C12: a delete request by the non-admin owner removes the shipment iff its
\* status is pending or cancelled and otherwise is answered 400 with the store
\* unchanged; a delete request by an admin removes the shipment in every
\* status.  The other shipments stay as they were.
C12_DeleteGuard ==
  [][(/\ last'.op = "delete"
      /\ requests' # requests
      /\ ByOwnerOrAdmin)
     => IF \/ RoleOf(last'.actor) = ADMIN
           \/ shipments[last'.id].status \in {PENDING, CANCELLED}
        THEN /\ last'.code = 200
             /\ DOMAIN shipments' = Stored \ {last'.id}
             /\ \A i \in DOMAIN shipments' : shipments'[i] = shipments[i]
        ELSE /\ last'.code = 400
             /\ shipments' = shipments]_vars

\* The owner, not an admin, was refused the deletion of a shipment in transit.
C12_Witness ==
  /\ last.op = "delete"
  /\ last.code = 400
  /\ last.id \in Stored
  /\ RoleOf(last.actor) # ADMIN
  /\ shipments[last.id].createdBy = last.actor
  /\ shipments[last.id].status = IN_TRANSIT

\* The paths the public tracking response must not carry.
PrivatePaths == {"createdBy", "updatedBy", "description", "weight", "attachments"}

\* A stored shipment has the requested tracking number, letter case ignored.
TrackingStored ==
  \E i \in Stored : toUpperCase(shipments[i].trackingNumber) = toUpperCase(reply.tn)

\* C19: the public tracking response for a stored shipment is a 200 that
\* carries none of createdBy, updatedBy, description, weight and attachments;
\* for a tracking number that is not stored the response is 404.
C19_TrackHidesPrivatePaths ==
  last.op = "track"
  => IF TrackingStored
     THEN /\ last.code = 200
          /\ reply.paths \cap PrivatePaths = {}
          /\ reply.data.createdBy = Null
          /\ reply.data.updatedBy = Null
          /\ reply.data.description = Null
          /\ reply.data.attachments = <<>>
          /\ reply.data.trackingNumber = shipments[last.id].trackingNumber
     ELSE /\ last.code = 404
          /\ reply.paths = {}

\* A shipment with a description, an attachment and an updater was tracked.
C19_Witness ==
  /\ last.op = "track"
  /\ last.code = 200
  /\ shipments[last.id].description # Null
  /\ shipments[last.id].updatedBy # Null
  /\ shipments[last.id].attachments # <<>>
  /\ reply.data.description = Null

\* The user standing for u when a and b trade places.
SwapUser(u, a, b) == IF u = a THEN b ELSE IF u = b THEN a ELSE u

\* The shipment doc as it would be stored had a and b traded places.
SwapUsers(doc, a, b) ==
  [doc EXCEPT
     !.createdBy = SwapUser(@, a, b),
     !.updatedBy = SwapUser(@, a, b),
     !.statusHistory = [k \in 1..Len(@) |->
                          [@[k] EXCEPT !.changedBy = SwapUser(@, a, b)]]]

\* C20: the public tracking response does not depend on who owns the
\* shipment: had any two users traded places in the stored shipment, the
\* response would be the same.
C20_TrackIndependentOfOwner ==
  (last.op = "track" /\ last.code = 200)
  => \A a, b \in Users :
       trackShipmentDoc(reply.tn, SwapUsers(shipments[last.id], a, b)) = reply

\* ------------------------------------------------- properties of users
\* The step answered a request to route op of the auth or user routes.
Answered(op) ==
  /\ ulast'.op = op
  /\ \/ requests' # requests /\ calls' = calls
     \/ requests' = requests /\ calls' # calls

\* Some user of coll has this email, letter case ignored.
EmailTaken(coll, email) ==
  \E u \in DOMAIN coll : toLowerCase(coll[u].email) = toLowerCase(email)

UserManagementOps ==
  {"getAllUsers", "getUserById", "updateUserRole", "activateUser",
   "deactivateUser", "deleteUser"}

\* C13: a user-management request whose token does not authenticate (none,
\* forged, or of a user gone or deactivated) is answered 401; one from an
\* authenticated actor whose role is not admin is answered 403; either way no
\* user record changes.  An admin is answered neither.
C13_UserManagementAdminOnly ==
  [][(\E op \in UserManagementOps : Answered(op))
     => IF ~(ulast'.bearer \in DOMAIN users /\ users[ulast'.bearer].isActive)
        THEN /\ ulast'.code = 401
             /\ users' = users
        ELSE IF users[ulast'.bearer].role # ADMIN
        THEN /\ ulast'.code = 403
             /\ users' = users
        ELSE ulast'.code \notin {401, 403}]_vars

\* A manager was refused a role change.
C13_Witness ==
  /\ ulast.op = "updateUserRole"
  /\ ulast.code = 403
  /\ ulast.bearer \in DOMAIN users
  /\ users[ulast.bearer].role = MANAGER
  /\ users[ulast.bearer].isActive

\* C14: an accepted deactivation leaves the user inactive and an accepted
\* activation leaves the user active; a login with the email and the password
\* of a stored user is answered 403 without a token while the user is
\* inactive, and 200 with a token while the user is active.
C14_InactiveLoginForbidden ==
  [][/\ (Answered("deactivateUser") /\ ulast'.code = 200)
        => ~users'[ulast'.target].isActive
     /\ (Answered("activateUser") /\ ulast'.code = 200)
        => users'[ulast'.target].isActive
     /\ Answered("login")
        => \A u \in DOMAIN users :
             (/\ users[u].email = toLowerCase(ulast'.email)
              /\ users[u].password = hash(ulast'.password))
             => IF users[u].isActive
                THEN ulast'.code = 200 /\ ulast'.token
                ELSE ulast'.code = 403 /\ ~ulast'.token]_vars

\* A deactivated user logged in with the right password and was refused.
C14_Witness ==
  /\ ulast.op = "login"
  /\ ulast.code = 403
  /\ ulast.target \in DOMAIN users
  /\ ~users[ulast.target].isActive
  /\ users[ulast.target].password = hash(ulast.password)

\* The user a login addresses, and whether its password verifies.
LoginUser(u) == u \in DOMAIN users /\ users[u].email = toLowerCase(ulast'.email)

Verifies(u) == users[u].password = hash(ulast'.password)

\* C15 as stated: a login is answered 200 with a token iff the email is a
\* stored user's, the user is active and the password verifies; with an
\* unknown email or a password that does not verify it is answered 401,
\* without a token, and lastLogin stays as it was.
C15_LoginAsStated ==
  [][Answered("login")
     => /\ (ulast'.code = 200 /\ ulast'.token)
           <=> \E u \in DOMAIN users :
                 LoginUser(u) /\ users[u].isActive /\ Verifies(u)
        /\ (\A u \in DOMAIN users : LoginUser(u) => ~Verifies(u))
           => /\ ulast'.code = 401
              /\ ~ulast'.token
              /\ users' = users]_vars

\* C15 amended: a login is answered 200 with a token iff the email is a
\* stored user's, the user is active and the password verifies; with an
\* unknown email, or with a password that does not verify for an active user,
\* it is answered 401; for an inactive user it is answered 403 whatever the
\* password.  Unless answered 200 it issues no token and changes no user.
C15_LoginOutcome ==
  [][Answered("login")
     => /\ (ulast'.code = 200 /\ ulast'.token)
           <=> \E u \in DOMAIN users :
                 LoginUser(u) /\ users[u].isActive /\ Verifies(u)
        /\ (\A u \in DOMAIN users : ~LoginUser(u)) => ulast'.code = 401
        /\ \A u \in DOMAIN users :
             LoginUser(u)
             => ulast'.code = IF ~users[u].isActive THEN 403
                              ELSE IF Verifies(u) THEN 200 ELSE 401
        /\ ulast'.code # 200 => ~ulast'.token /\ users' = users
        /\ ulast'.code = 200
           => /\ DOMAIN users' = DOMAIN users
              /\ \A u \in DOMAIN users :
                   users'[u] = IF LoginUser(u)
                               THEN [users[u] EXCEPT !.lastLogin = DateSet]
                               ELSE users[u]]_vars

\* An active user who never logged in sent a wrong password.
C15_Witness ==
  /\ ulast.op = "login"
  /\ ulast.code = 401
  /\ ulast.target \in DOMAIN users
  /\ users[ulast.target].isActive
  /\ users[ulast.target].password # hash(ulast.password)
  /\ users[ulast.target].lastLogin = NoDate

\* C16: a registration whose email is, letter case ignored, a stored user's
\* is answered 409 and creates no user; any other registration is answered
\* 201 with a token and adds exactly one user, active, with role user, the
\* email in lower case and a password hash the password verifies against.
C16_RegisterOutcome ==
  [][Answered("register")
     => IF EmailTaken(users, ulast'.email)
        THEN /\ ulast'.code = 409
             /\ users' = users
        ELSE /\ ulast'.code = 201
             /\ ulast'.token
             /\ ulast'.target \notin DOMAIN users
             /\ DOMAIN users' = DOMAIN users \cup {ulast'.target}
             /\ \A u \in DOMAIN users : users'[u] = users[u]
             /\ users'[ulast'.target].isActive
             /\ users'[ulast'.target].role = USER
             /\ users'[ulast'.target].email = toLowerCase(ulast'.email)
             /\ users'[ulast'.target].password = hash(ulast'.password)]_vars

\* A registration with a stored email in another spelling was refused.
C16_Witness ==
  /\ ulast.op = "register"
  /\ ulast.code = 409
  /\ ulast.email = "U1@x.io"
  /\ \E u \in DOMAIN users : users[u].email = "u1@x.io"

\* C17: in every state no two stored users have emails that are equal
\* ignoring case, whatever the interleaving of registrations and profile
\* updates; a registration, or a profile update of a user still stored, that
\* reaches its write when the email has been taken meanwhile is answered 409
\* and writes nothing.
C17_EmailsUnique ==
  [][/\ \A u, v \in DOMAIN users' :
          u # v => toLowerCase(users'[u].email) # toLowerCase(users'[v].email)
     /\ \A p \in Procs :
          (/\ calls[p].pc # "idle"
           /\ calls'[p].pc = "idle"
           /\ calls[p].pc = "update" => calls[p].userId \in DOMAIN users
           /\ \E u \in DOMAIN users :
                /\ u # calls[p].userId
                /\ toLowerCase(users[u].email) = toLowerCase(calls[p].email))
          => /\ ulast'.code = 409
             /\ users' = users]_vars

\* Two registrations with the same email both passed the existence check;
\* one created the user and the other was refused by the unique index.
C17_Witness ==
  /\ ulast.op = "register"
  /\ ulast.code = 409
  /\ ulast.message = EmailExists
  /\ \E u \in DOMAIN users : u \notin Users /\ users[u].email = toLowerCase(ulast.email)

\* C18 as stated: a password change with a wrong current password is
\* answered 400 and leaves the stored password as it was; one with the right
\* current password succeeds, after which the new password verifies and the
\* old one does not.
C18_ChangePasswordAsStated ==
  [][(Answered("changePassword") /\ ulast'.code # 401)
     => IF users[ulast'.target].password # hash(ulast'.password)
        THEN /\ ulast'.code = 400
             /\ users' = users
        ELSE /\ ulast'.code = 200
             /\ users'[ulast'.target].password = hash(ulast'.newPassword)
             /\ users'[ulast'.target].password # hash(ulast'.password)]_vars

\* C18 amended: as stated, except that after a successful change the old
\* password fails to verify only if it does not verify against the hash of
\* the new one (it does when the new password is the old one, or when both
\* agree on the bytes bcrypt reads).  Nothing but the password changes.
C18_ChangePasswordOutcome ==
  [][(Answered("changePassword") /\ ulast'.code # 401)
     => IF users[ulast'.target].password # hash(ulast'.password)
        THEN /\ ulast'.code = 400
             /\ users' = users
        ELSE /\ ulast'.code = 200
             /\ users' = [users EXCEPT
                            ![ulast'.target].password = hash(ulast'.newPassword)]
             /\ hash(ulast'.password) # hash(ulast'.newPassword)
                => users'[ulast'.target].password # hash(ulast'.password)]_vars

\* A password was changed to a different one, which alone verifies now.
C18_Witness ==
  /\ ulast.op = "changePassword"
  /\ ulast.code = 200
  /\ ulast.newPassword # ulast.password
  /\ ulast.target \in DOMAIN users
  /\ users[ulast.target].password = hash(ulast.newPassword)
  /\ users[ulast.target].password # hash(ulast.password)

\* ------------------------------------------- properties of attachments
\* seq without its k-th element.
Without(seq, k) == SubSeq(seq, 1, k - 1) \o SubSeq(seq, k + 1, Len(seq))

\* The step changed neither status, nor status history, nor actualDelivery of
\* shipment id.
LifecycleUntouched(id) ==
  /\ shipments'[id].status = shipments[id].status
  /\ shipments'[id].statusHistory = shipments[id].statusHistory
  /\ shipments'[id].actualDelivery = shipments[id].actualDelivery

C27_HistoryEndsAtStatus ==
  \A i \in Stored :
    /\ Len(shipments[i].statusHistory) >= 1
    /\ shipments[i].statusHistory[Len(shipments[i].statusHistory)].status
         = shipments[i].status

\* PUT /shipments/:id changed the status of a shipment and was answered 200.
C27_Witness ==
  /\ last.op = "update"
  /\ last.code = 200
  /\ last.status = shipments[last.id].status
  /\ Len(shipments[last.id].statusHistory) >= 2
  /\ shipments[last.id].statusHistory[1].status # shipments[last.id].status

\* --------------------------------------- properties of profile updates
\* A stored user other than self holds the email, ignoring case.
OtherHolds(coll, self, email) ==
  \E u \in DOMAIN coll :
    u # self /\ toLowerCase(coll[u].email) = toLowerCase(email)

\* C26: a profile update that sets the email is answered 409 iff the email,
\* ignoring case, belongs to a different stored user (when the request checks
\* it, or when it writes); with an email no other user holds, the caller's
\* own current email included, it succeeds; a rejected update changes no
\* field of the caller's record.
C26_ProfileEmailConflict ==
  [][/\ (/\ requests' # requests
         /\ calls' = calls
         /\ ulast'.op = "updateProfile"
         /\ ulast'.code = 409)
        => /\ OtherHolds(users, ulast'.target, ulast'.email)
           /\ users' = users
     /\ \A p \in Procs :
          (calls[p].pc = "idle" /\ calls'[p].pc = "update"
             /\ "email" \in calls'[p].keys)
          => ~OtherHolds(users, calls'[p].userId, calls'[p].email)
     /\ \A p \in Procs :
          (/\ calls[p].pc = "update"
           /\ calls'[p].pc = "idle"
           /\ "email" \in calls[p].keys
           /\ calls[p].userId \in DOMAIN users)
          => IF OtherHolds(users, calls[p].userId, calls[p].email)
             THEN /\ ulast'.code = 409
                  /\ users' = users
             ELSE /\ ulast'.code = 200
                  /\ users'[calls[p].userId].email = toLowerCase(calls[p].email)]_vars

\* ------------------------------------- properties of authorization
\* The routes behind authenticate in the auth and user routers.
AuthenticatedOps ==
  {"getProfile", "updateProfile", "changePassword", "updateAvatar"}
    \cup UserManagementOps

\* C28: every request that carries a token is decided from the record stored
\* for the token's user when the request is served: it is answered 401
\* exactly when no such record is stored or the record is not active (so a
\* token is refused once its user is deactivated or deleted and honoured
\* again after reactivation), and on an admin-only route it is answered 403
\* exactly when the stored role is not admin, whatever the role was when the
\* token was issued.
C28_StoredRecordDecides ==
  [][/\ (requests' # requests /\ calls' = calls /\ ulast'.op \in AuthenticatedOps)
        => /\ (ulast'.code = 401)
                <=> ~(ulast'.bearer \in DOMAIN users /\ users[ulast'.bearer].isActive)
           /\ (ulast'.op \in UserManagementOps /\ ulast'.code # 401)
                => ((ulast'.code = 403) <=> users[ulast'.bearer].role # ADMIN)
     /\ \A p \in Procs :
          (calls[p].pc = "idle" /\ calls'[p].pc = "update")
          => /\ calls'[p].userId \in DOMAIN users
             /\ users[calls'[p].userId].isActive]_vars

\* The seed admin, demoted, is refused on an admin-only route.
C28_Witness ==
  /\ ulast.op \in UserManagementOps
  /\ ulast.code = 403
  /\ ulast.bearer = "adm"
  /\ users["adm"].role # ADMIN

\* ------------------------------------ properties of role and active flag
\* C29: the role and the active flag of a stored user change only in a
\* role-change, deactivate or activate request of an actor whose stored role
\* is admin; a registration creates a user with role user, active, whatever
\* role or isActive its body carried; a profile update changes neither the
\* role, nor the active flag, nor the password, whatever its body carried.
C29_OnlyAdminChangesRole ==
  [][/\ (\E u \in DOMAIN users \cap DOMAIN users' :
           \/ users'[u].role # users[u].role
           \/ users'[u].isActive # users[u].isActive)
        => /\ requests' # requests
           /\ ulast'.op \in {"updateUserRole", "deactivateUser", "activateUser"}
           /\ ulast'.code = 200
           /\ ulast'.bearer \in DOMAIN users
           /\ users[ulast'.bearer].role = ADMIN
     /\ \A u \in DOMAIN users' \ DOMAIN users :
          /\ users'[u].role = USER
          /\ users'[u].isActive
     /\ \A p \in Procs :
          (calls[p].pc = "update" /\ calls'[p].pc = "idle"
             /\ calls[p].userId \in DOMAIN users)
          => /\ users'[calls[p].userId].role = users[calls[p].userId].role
             /\ users'[calls[p].userId].isActive = users[calls[p].userId].isActive
             /\ users'[calls[p].userId].password = users[calls[p].userId].password]_vars

\* A registration whose body carried role admin and isActive false created
\* an active user of role user.
C29_Witness ==
  /\ ulast.op = "register"
  /\ ulast.code = 201
  /\ ulast.role = ForgedRole
  /\ users[ulast.target].role = USER
  /\ users[ulast.target].isActive

\* ------------------------------------------ properties of the virtuals
\* C25: whatever the shipment and the time its derived fields are read at,
\* isOverdue is true iff the status is neither delivered nor cancelled, an
\* estimated delivery is set and the time is strictly later than it; and
\* daysInTransit is 0 when the status is pending.
C25_DerivedFields ==
  json.computed
  => /\ json.isOverdue
          <=> /\ virtualDoc.status \notin {DELIVERED, CANCELLED}
              /\ virtualDoc.estimatedDelivery # NoTime
              /\ now > virtualDoc.estimatedDelivery
     /\ virtualDoc.status = PENDING => json.daysInTransit = 0

\* A shipment in transit whose estimated delivery is the epoch is overdue.
C25_Witness ==
  /\ json.computed
  /\ json.isOverdue
  /\ virtualDoc.status = IN_TRANSIT
  /\ virtualDoc.estimatedDelivery = 0

\* ------------------------------- properties of lists and statistics
\* The stored shipments a list request of the caller must show: the caller's
\* own unless the caller is an admin, narrowed by the status and search
\* parameters.
Listable ==
  {i \in Stored :
     /\ RoleOf(listing.actor) # ADMIN => shipments[i].createdBy = listing.actor
     /\ listing.query.status # Null => shipments[i].status = listing.query.status
     /\ listing.query.search # Null
          => regexMatch(listing.query.search, shipments[i].trackingNumber)}

\* The place of shipment i among the listable ones in the order asked for.
Position(i) ==
  1 + Cardinality({j \in Listable :
                     \/ listing.query.sortOrder = "asc" /\ j < i
                     \/ listing.query.sortOrder = "desc" /\ j > i})

\* The page on which place k falls.
PageOf(k) == ((k - 1) \div listing.query.limit) + 1

OwnedWithStatus(owner, status) ==
  Cardinality({i \in Stored : /\ shipments[i].createdBy = owner
                              /\ shipments[i].status = status})

\* C24: the statistics GET /shipments/stats and /shipments/my-stats give a
\* non-admin caller are, for each status, the number of stored shipments the
\* caller owns with that status, and total is the sum of the four; the
\* shipments of other users are not counted.
C24_OwnStatistics ==
  (listing.op \in {"stats", "my-stats"} /\ RoleOf(listing.actor) # ADMIN)
  => /\ listing.stats.pending = OwnedWithStatus(listing.actor, PENDING)
     /\ listing.stats.in_transit = OwnedWithStatus(listing.actor, IN_TRANSIT)
     /\ listing.stats.delivered = OwnedWithStatus(listing.actor, DELIVERED)
     /\ listing.stats.cancelled = OwnedWithStatus(listing.actor, CANCELLED)
     /\ listing.stats.total
          = listing.stats.pending + listing.stats.in_transit
              + listing.stats.delivered + listing.stats.cancelled

\* A user with one delivered shipment asked for statistics while another
\* user had a shipment too.
C24_Witness ==
  /\ listing.op = "stats"
  /\ listing.actor = "u1"
  /\ listing.stats.delivered = 1
  /\ listing.stats.total = 1
  /\ \E i \in Stored : shipments[i].createdBy # "u1"

\* ----------------------------- properties of concurrent requests
\* C23: a status change is written on top of the status it was validated
\* against, whatever other requests on the shipment were served between its
\* read and its write, so each status written follows the one stored by an
\* edge of the transition table.
C23_TransitionAtomic ==
  [][\A p \in Procs :
       (loaded[p].pc = "save" /\ loaded'[p].pc = "idle" /\ loaded[p].id \in Stored)
       => /\ shipments[loaded[p].id].status = loaded[p].doc.status
          /\ \/ shipments'[loaded[p].id].status = shipments[loaded[p].id].status
             \/ <<shipments[loaded[p].id].status, shipments'[loaded[p].id].status>>
                  \in TransitionTable]_vars

\* C30: the delete of an owner who is no admin removes a shipment whose
\* stored status, at the moment it is removed, is the status the delete
\* checked: never one in transit or delivered, whatever status change was
\* served between the check and the removal.
C30_DeleteChecksWhatItRemoves ==
  [][\A p \in Procs :
       (/\ loaded[p].pc = "remove"
        /\ loaded'[p].pc = "idle"
        /\ RoleOf(loaded[p].actor) # ADMIN
        /\ loaded[p].id \in Stored)
       => /\ shipments[loaded[p].id].status \notin {IN_TRANSIT, DELIVERED}
          /\ shipments[loaded[p].id].status = loaded[p].doc.status]_vars

====
